---------------------------- MODULE Spec2Model ----------------------------
(***************************************************************************)
(* A model of brd.py: the UDP broadcast sender and receiver classes, the   *)
(* datagram network between them, and the command-line demo modes.         *)
(*                                                                         *)
(* Text is a sequence of Unicode code points, a datagram payload is a      *)
(* sequence of bytes; str.encode('utf-8') and bytes.decode('utf-8') are    *)
(* modelled by the UTF-8 arithmetic itself.                                *)
(***************************************************************************)
EXTENDS Integers, Sequences, FiniteSets, TLC

(***************************************************************************)
(* Bounds of the model.                                                    *)
(***************************************************************************)
\* datagrams the network carries in one behaviour; later ones are lost
MaxDatagrams == 2

(***************************************************************************)
(* Program constants.                                                      *)
(***************************************************************************)
\* recvfrom(1024)
BufSize == 1024
\* port=8888 default of both constructors
DefaultPort == 8888
\* ports = [8888, 8889, 8890]
ports == <<8888, 8889, 8890>>
\* broadcast_ip="255.255.255.255"
DefaultBroadcastIp == "255.255.255.255"
\* largest UDP payload sendto accepts over IPv4 (65535 - IP header - UDP header)
UdpMax == 65535 - 20 - 8

Receivers == 1..Len(ports)
Senders == 1..Len(ports)

(***************************************************************************)
(* str.encode('utf-8')                                                     *)
(***************************************************************************)
Rep(c, n) == [i \in 1..n |-> c]

IsSurrogate(c) == c \in 55296..57343

\* a str holding a lone surrogate raises UnicodeEncodeError
CanEncode(message) == \A i \in 1..Len(message) : ~IsSurrogate(message[i])

EncodeChar(c) ==
    IF c < 128 THEN <<c>>
    ELSE IF c < 2048 THEN <<192 + (c \div 64), 128 + (c % 64)>>
    ELSE IF c < 65536 THEN
        <<224 + (c \div 4096), 128 + ((c \div 64) % 64), 128 + (c % 64)>>
    ELSE <<240 + (c \div 262144), 128 + ((c \div 4096) % 64),
           128 + ((c \div 64) % 64), 128 + (c % 64)>>

RECURSIVE Encode(_)
Encode(message) ==
    IF Len(message) = 0 THEN <<>>
    ELSE IF Len(message) = 1 THEN EncodeChar(message[1])
    ELSE LET h == Len(message) \div 2
         IN  Encode(SubSeq(message, 1, h))
               \o Encode(SubSeq(message, h + 1, Len(message)))

(***************************************************************************)
(* bytes.decode('utf-8'), strict                                           *)
(***************************************************************************)
IsCont(b) == b \in 128..191

\* length of the sequence a lead byte announces; 0 for a byte that cannot lead
SeqLen(b) ==
    IF b < 128 THEN 1
    ELSE IF b \in 194..223 THEN 2
    ELSE IF b \in 224..239 THEN 3
    ELSE IF b \in 240..244 THEN 4
    ELSE 0

\* the range the second byte must lie in (no overlong forms, no surrogates,
\* nothing above U+10FFFF)
SecondOk(lead, b) ==
    IF lead = 224 THEN b \in 160..191
    ELSE IF lead = 237 THEN b \in 128..159
    ELSE IF lead = 240 THEN b \in 144..191
    ELSE IF lead = 244 THEN b \in 128..143
    ELSE IsCont(b)

WellFormedAt(data, i) ==
    LET n == SeqLen(data[i])
    IN  /\ n > 0
        /\ i + n - 1 <= Len(data)
        /\ n > 1 => SecondOk(data[i], data[i + 1])
        /\ \A j \in (i + 2)..(i + n - 1) : IsCont(data[j])

\* a continuation byte belongs to the lead byte at most three places before it
Covered(data, i) ==
    \E k \in 1..3 :
        /\ i - k >= 1
        /\ ~IsCont(data[i - k])
        /\ SeqLen(data[i - k]) > k
        /\ \A j \in (i - k + 1)..(i - 1) : IsCont(data[j])

ValidUtf8(data) ==
    \A i \in 1..Len(data) :
        IF IsCont(data[i]) THEN Covered(data, i) ELSE WellFormedAt(data, i)

CodePointAt(data, i) ==
    LET n == SeqLen(data[i])
    IN  IF n = 1 THEN data[i]
        ELSE IF n = 2 THEN (data[i] - 192) * 64 + (data[i + 1] - 128)
        ELSE IF n = 3 THEN
            (data[i] - 224) * 4096 + (data[i + 1] - 128) * 64 + (data[i + 2] - 128)
        ELSE (data[i] - 240) * 262144 + (data[i + 1] - 128) * 4096
               + (data[i + 2] - 128) * 64 + (data[i + 3] - 128)

\* the decoded text of valid UTF-8: one code point per lead byte
Decode(data) ==
    SelectSeq([i \in 1..Len(data) |->
                  IF IsCont(data[i]) THEN -1 ELSE CodePointAt(data, i)],
              LAMBDA c : c >= 0)

(***************************************************************************)
(* Inputs: the texts passed to send_broadcast, the destinations, and the   *)
(* payloads other hosts of the LAN put on the wire.                        *)
(***************************************************************************)
\* the texts demo_broadcast_sender sends
MsgHello == <<72, 101, 108, 108, 111, 44, 32, 23616, 22495, 32593, 20869,
              30340, 25152, 26377, 35774, 22791, 33>>
MsgSecond == <<36825, 26159, 31532, 20108, 26465, 24191, 25773, 28040, 24687>>
MsgDone == <<24191, 25773, 27979, 35797, 23436, 25104>>
\* the text demo_simple_test sends
MsgSelfTest == <<27979, 35797, 24191, 25773, 28040, 24687, 32, 45, 32, 22914,
                 26524, 20320, 30475, 21040, 36825, 26465, 28040, 24687, 65292,
                 35828, 26126, 24191, 25773, 24037, 20316, 27491, 24120, 65281>>
\* 1024 bytes encoded, the last two of them one two-byte character
MsgFit == Rep(65, 1022) \o <<233>>
\* 2000 bytes encoded, all one-byte characters
MsgLong == Rep(65, 2000)
\* 1026 bytes encoded: byte 1024 is the lead byte of a three-byte character
MsgSplit == Rep(65, 1023) \o <<27979>>
\* a lone surrogate: str.encode raises UnicodeEncodeError
MsgSurrogate == <<55296>>
\* one byte more than a UDP datagram can carry
MsgTooBig == Rep(65, UdpMax + 1)

\* texts whose datagram a socket accepts
Deliverable == {MsgDone, MsgFit, MsgLong, MsgSplit}
Messages == Deliverable \cup {MsgSurrogate, MsgTooBig}

\* the bytes of the long texts, computed once
WireTable ==
    (MsgFit :> Encode(MsgFit)) @@ (MsgLong :> Encode(MsgLong))
      @@ (MsgSplit :> Encode(MsgSplit)) @@ (MsgTooBig :> Encode(MsgTooBig))

\* message.encode('utf-8') of a text that can be encoded
encode_utf8(message) ==
    IF message \in DOMAIN WireTable THEN WireTable[message] ELSE Encode(message)

\* whether message.encode('utf-8') succeeds (looked up for the texts above)
Encodable == {m \in Messages : CanEncode(m)}
can_encode(message) ==
    IF message \in Messages THEN message \in Encodable ELSE CanEncode(message)

Destinations == {DefaultBroadcastIp, "no-such-host.invalid"}

\* bytes that are not UTF-8
RawInvalid == <<255, 254>>

\* what another host may send: any of the texts above, or bytes that are no text
ForeignPayloads == {encode_utf8(m) : m \in Deliverable} \cup {RawInvalid}

Ports == {ports[i] : i \in 1..Len(ports)}

(***************************************************************************)
(* State.                                                                  *)
(***************************************************************************)
VARIABLES
    ssock,      \* sender -> "none" | "open" | "closed": UDPBroadcastSender.sock
    sport,      \* sender -> UDPBroadcastSender.port (0 before construction)
    lastSend,   \* the last call of send_broadcast: its sendto outcome and result
    rsock,      \* receiver -> "none" | "open" | "closed": UDPBroadcastReceiver.sock
    rport,      \* receiver -> UDPBroadcastReceiver.port (0 before construction)
    rbound,     \* receiver -> the port its socket is bound to
    rpc,        \* receiver -> where its listen_for_broadcasts is:
                \*   "idle" not started, "top" at the head of the loop,
                \*   "inrecv" blocked in recvfrom, "failed" recvfrom raised
                \*   OSError, "raised" left by an exception, "returned"
                \*   returned, "killed" ended with the process
    queue,      \* receiver -> the datagrams waiting in its socket (ids)
    log,        \* receiver -> what the loop printed for each datagram it read
    retries,    \* receiver -> whether the loop printed a "receive failed" line
                \*   for an OSError of recvfrom and went round again
    dgram,      \* every datagram the network carried; a datagram's id is its index
    argv,       \* sys.argv[1:], each argument a sequence of code points
    mainpc,     \* the main thread's position
    idx,        \* the loop index of the multi-port demos
    exitStatus, \* the process's exit status (-1 while it runs)
    stdout      \* which of the entry point's messages were printed

senderVars == <<ssock, sport, lastSend>>
recvVars == <<rsock, rport, rbound, rpc, queue, log, retries>>
progVars == <<argv, mainpc, idx, exitStatus, stdout>>
vars == <<ssock, sport, lastSend, rsock, rport, rbound, rpc, queue, log,
          retries, dgram, argv, mainpc, idx, exitStatus, stdout>>

NoSend == [sender |-> 0, outcome |-> "none", result |-> "none",
           afterFailure |-> FALSE]

ClassInit ==
    /\ ssock = [s \in Senders |-> "none"]
    /\ sport = [s \in Senders |-> 0]
    /\ lastSend = NoSend
    /\ rsock = [r \in Receivers |-> "none"]
    /\ rport = [r \in Receivers |-> 0]
    /\ rbound = [r \in Receivers |-> 0]
    /\ rpc = [r \in Receivers |-> "idle"]
    /\ queue = [r \in Receivers |-> <<>>]
    /\ log = [r \in Receivers |-> <<>>]
    /\ retries = [r \in Receivers |-> FALSE]
    /\ dgram = <<>>

(***************************************************************************)
(* The network: a datagram sent to a port reaches sockets bound to it.     *)
(***************************************************************************)
\* the kernel keeps a closed socket alive while a recvfrom is pending on it
Alive(r) == rsock[r] = "open" \/ (rsock[r] = "closed" /\ rpc[r] = "inrecv")

BoundTo(port) == {r \in Receivers : Alive(r) /\ rbound[r] = port}

\* datagram d goes on the wire and reaches some of the sockets bound to its
\* port (delivery is best effort); beyond MaxDatagrams it is lost
Transmit(d) ==
    IF Len(dgram) < MaxDatagrams
    THEN /\ dgram' = Append(dgram, d)
         /\ \E rcpts \in SUBSET BoundTo(d.port) :
               queue' = [r \in Receivers |->
                            IF r \in rcpts THEN Append(queue[r], Len(dgram) + 1)
                            ELSE queue[r]]
    ELSE UNCHANGED <<dgram, queue>>

\* another host of the LAN broadcasts raw bytes to a port
ForeignSend(port, raw) ==
    /\ Transmit([port |-> port, data |-> raw, src |-> 0, text |-> <<>>])
    /\ UNCHANGED <<senderVars, rsock, rport, rbound, rpc, log, retries>>

(***************************************************************************)
(* Exceptions.                                                             *)
(***************************************************************************)
\* the exceptions a clause `except Exception` catches (KeyboardInterrupt is
\* a BaseException and is not among them)
ExceptionSubclasses == {"OSError", "UnicodeEncodeError", "UnicodeDecodeError"}

(***************************************************************************)
(* class UDPBroadcastSender                                                *)
(***************************************************************************)
UDPBroadcastSender_init(s, port) ==
    /\ ssock[s] = "none"
    /\ ssock' = [ssock EXCEPT ![s] = "open"]
    /\ sport' = [sport EXCEPT ![s] = port]
    /\ UNCHANGED <<lastSend, recvVars, dgram>>

\* what message.encode('utf-8') and self.sock.sendto(...) do
sendto_outcome(s, message, broadcast_ip, netUp) ==
    IF ~can_encode(message) THEN "UnicodeEncodeError"
    ELSE IF ssock[s] = "closed" THEN "OSError"               \* EBADF
    ELSE IF broadcast_ip # DefaultBroadcastIp THEN "OSError" \* gaierror
    ELSE IF Len(encode_utf8(message)) > UdpMax THEN "OSError" \* EMSGSIZE
    ELSE IF ~netUp THEN "OSError"                            \* ENETUNREACH
    ELSE "ok"

\* send_result with `except OSError` in place of `except Exception`
send_result_only_oserror(outcome) ==
    IF outcome = "ok" THEN "True"
    ELSE IF outcome = "OSError" THEN "False"
    ELSE "raised"

\* the try/except of send_broadcast: its return value, or "raised" when
\* the exception leaves it
send_result(outcome) ==
    IF outcome = "ok" THEN "True"
    ELSE IF outcome \in ExceptionSubclasses THEN "False"
    ELSE "raised"

\* the port send_broadcast addresses
send_port(s) == sport[s]

send_broadcast(s, message, broadcast_ip, netUp) ==
    LET outcome == sendto_outcome(s, message, broadcast_ip, netUp)
    IN  /\ ssock[s] # "none"
        /\ lastSend' = [sender |-> s, outcome |-> outcome,
                        result |-> send_result(outcome),
                        afterFailure |-> lastSend.sender = s
                                          /\ lastSend.result = "False"]
        /\ IF outcome = "ok"
           THEN Transmit([port |-> send_port(s), data |-> encode_utf8(message),
                          src |-> s, text |-> message])
           ELSE UNCHANGED <<dgram, queue>>
        /\ UNCHANGED <<ssock, sport, rsock, rport, rbound, rpc, log, retries>>

Sender_close(s) ==
    /\ ssock[s] = "open"
    /\ ssock' = [ssock EXCEPT ![s] = "closed"]
    /\ UNCHANGED <<sport, lastSend, recvVars, dgram>>

(***************************************************************************)
(* class UDPBroadcastReceiver                                              *)
(***************************************************************************)
\* bind_port ignoring the constructor's argument
bind_port_default(port) == DefaultPort

\* the port __init__ binds
bind_port(port) == port

UDPBroadcastReceiver_init(r, port) ==
    /\ rsock[r] = "none"
    /\ rsock' = [rsock EXCEPT ![r] = "open"]
    /\ rport' = [rport EXCEPT ![r] = port]
    /\ rbound' = [rbound EXCEPT ![r] = bind_port(port)]
    /\ UNCHANGED <<senderVars, rpc, queue, log, retries, dgram>>

\* a thread (or the main thread) enters listen_for_broadcasts
ListenStart(r) ==
    /\ rsock[r] # "none"
    /\ rpc[r] = "idle"
    /\ rpc' = [rpc EXCEPT ![r] = "top"]
    /\ UNCHANGED <<senderVars, rsock, rport, rbound, queue, log, retries, dgram>>

\* loop_after with `except OSError` in place of `except Exception`
loop_after_only_oserror(exc) == IF exc = "OSError" THEN "top" ELSE "raised"

\* where the loop is after an exception in its try block: the except
\* clause prints it and `while True` goes round again; an exception the
\* clause does not catch leaves the function
loop_after(exc) == IF exc \in ExceptionSubclasses THEN "top" ELSE "raised"

\* the head of the loop calls recvfrom: on an open socket it blocks, on a
\* closed one it raises OSError at once
CallRecvfrom(r) ==
    /\ rpc[r] = "top"
    /\ rpc' = [rpc EXCEPT ![r] = IF rsock[r] = "open" THEN "inrecv" ELSE "failed"]
    /\ UNCHANGED <<senderVars, rsock, rport, rbound, queue, log, retries, dgram>>

\* the except clause after recvfrom raised OSError: it prints the error,
\* and the loop goes on as loop_after says
ExceptClause(r) ==
    /\ rpc[r] = "failed"
    /\ rpc' = [rpc EXCEPT ![r] = loop_after("OSError")]
    /\ retries' = [retries EXCEPT ![r] = loop_after("OSError") = "top"]
    /\ UNCHANGED <<senderVars, rsock, rport, rbound, queue, log, dgram>>

\* recvfrom_data with a buffer one byte short
recvfrom_data_short(data) ==
    IF Len(data) > BufSize - 1 THEN SubSeq(data, 1, BufSize - 1) ELSE data

\* recvfrom(1024): the first bytes of the datagram, the rest is discarded
recvfrom_data(data) ==
    IF Len(data) > BufSize THEN SubSeq(data, 1, BufSize) ELSE data

\* data.decode('utf-8'): the text, or UnicodeDecodeError (ok is FALSE)
decode_strict(data) ==
    IF ValidUtf8(data) THEN [ok |-> TRUE, text |-> Decode(data)]
    ELSE [ok |-> FALSE, text |-> <<>>]

\* decode of the long buffers recvfrom can return, computed once
DecodeTable ==
    LET fit == recvfrom_data(encode_utf8(MsgFit))
        long == recvfrom_data(encode_utf8(MsgLong))
        split == recvfrom_data(encode_utf8(MsgSplit))
    IN  (fit :> decode_strict(fit)) @@ (long :> decode_strict(long))
          @@ (split :> decode_strict(split))

decode_utf8(data) ==
    IF data \in DOMAIN DecodeTable THEN DecodeTable[data] ELSE decode_strict(data)

\* the body of the loop for one datagram: the record it prints, or the
\* error line of its except clause when decode raises UnicodeDecodeError
iteration_entry(id) ==
    LET message == decode_utf8(recvfrom_data(dgram[id].data))
    IN  IF message.ok
        THEN [kind |-> "record", id |-> id, addr |-> dgram[id].src,
              message |-> message.text]
        ELSE [kind |-> "error", id |-> id, addr |-> dgram[id].src,
              message |-> <<>>]

\* a pending recvfrom returns the next datagram; the loop decodes and prints
RecvReturn(r) ==
    LET entry == iteration_entry(Head(queue[r]))
    IN  /\ rpc[r] = "inrecv"
        /\ queue[r] # <<>>
        /\ log' = [log EXCEPT ![r] = Append(@, entry)]
        /\ rpc' = [rpc EXCEPT ![r] =
                      IF entry.kind = "record" THEN "top"
                      ELSE loop_after("UnicodeDecodeError")]
        /\ queue' = [queue EXCEPT ![r] =
                        IF rsock[r] = "closed" THEN <<>> ELSE Tail(@)]
        /\ UNCHANGED <<senderVars, rsock, rport, rbound, retries, dgram>>

\* a recvfrom pending when the socket was closed fails with OSError (where
\* the platform wakes it)
RecvAbort(r) ==
    /\ rpc[r] = "inrecv"
    /\ rsock[r] = "closed"
    /\ rpc' = [rpc EXCEPT ![r] = "failed"]
    /\ queue' = [queue EXCEPT ![r] = <<>>]
    /\ UNCHANGED <<senderVars, rsock, rport, rbound, log, retries, dgram>>

Receiver_close(r) ==
    /\ rsock[r] = "open"
    /\ rsock' = [rsock EXCEPT ![r] = "closed"]
    /\ queue' = [queue EXCEPT ![r] = IF rpc[r] = "inrecv" THEN @ ELSE <<>>]
    /\ UNCHANGED <<senderVars, rport, rbound, rpc, log, retries, dgram>>

(***************************************************************************)
(* The classes used directly: the entry point's state stays idle.          *)
(***************************************************************************)
ProgIdle ==
    /\ argv = <<>>
    /\ mainpc = "library"
    /\ idx = 0
    /\ exitStatus = -1
    /\ stdout = {}

Init == ClassInit /\ ProgIdle

\* the steps of a caller that owns the receivers R and the senders S, and
\* of the other hosts of the LAN
Construct(R) ==
    (\E r \in R : UDPBroadcastReceiver_init(r, ports[r])) /\ UNCHANGED progVars
Listen(R) == (\E r \in R : ListenStart(r)) /\ UNCHANGED progVars
Call(R) == (\E r \in R : CallRecvfrom(r)) /\ UNCHANGED progVars
Return(R) == (\E r \in R : RecvReturn(r)) /\ UNCHANGED progVars
Abort(R) == (\E r \in R : RecvAbort(r)) /\ UNCHANGED progVars
Except(R) == (\E r \in R : ExceptClause(r)) /\ UNCHANGED progVars
Close(R) == (\E r \in R : Receiver_close(r)) /\ UNCHANGED progVars
Arrive(P, Raw) ==
    (\E p \in P, raw \in Raw : ForeignSend(p, raw)) /\ UNCHANGED progVars
SenderConstruct(S, P) ==
    (\E s \in S, p \in P : UDPBroadcastSender_init(s, p)) /\ UNCHANGED progVars
SenderSend(S, M, D, N) ==
    (\E s \in S, m \in M, ip \in D, netUp \in N : send_broadcast(s, m, ip, netUp))
      /\ UNCHANGED progVars
SenderClose(S) == (\E s \in S : Sender_close(s)) /\ UNCHANGED progVars

(***************************************************************************)
(* Spec: one receiver on the default port, its listening thread, a caller  *)
(* that may close it, and other hosts broadcasting to the port.            *)
(***************************************************************************)
Next ==
    \/ Construct({1})
    \/ Listen({1})
    \/ Call({1})
    \/ Return({1})
    \/ Abort({1})
    \/ Except({1})
    \/ Close({1})
    \/ Arrive({DefaultPort}, ForeignPayloads)

Spec == Init /\ [][Next]_vars

\* the listening thread is scheduled, and a recvfrom returns once a datagram
\* waits in its socket
FairSpec ==
    Spec /\ WF_vars(Call({1})) /\ WF_vars(Return({1})) /\ WF_vars(Except({1}))

\* moreover the platform fails a recvfrom that is pending on a socket when
\* the socket is closed
WakeSpec == FairSpec /\ WF_vars(Abort({1}))

(***************************************************************************)
(* SendSpec: one sender called with every kind of input.                   *)
(***************************************************************************)
SendNext ==
    \/ SenderConstruct({1}, Ports)
    \/ SenderSend({1}, Messages, Destinations, BOOLEAN)
    \/ SenderClose({1})

SendSpec == Init /\ [][SendNext]_vars

(***************************************************************************)
(* LinkSpec: a sender and a receiver, the sender on either of two ports.   *)
(***************************************************************************)
LinkNext ==
    \/ SenderConstruct({1}, {ports[1], ports[2]})
    \/ SenderSend({1}, Deliverable, {DefaultBroadcastIp}, {TRUE})
    \/ Construct({1})
    \/ Listen({1})
    \/ Call({1})
    \/ Return({1})
    \/ Abort({1})
    \/ Except({1})
    \/ Close({1})

LinkSpec == Init /\ [][LinkNext]_vars

FairLinkSpec ==
    LinkSpec /\ WF_vars(Call({1})) /\ WF_vars(Return({1})) /\ WF_vars(Except({1}))

(***************************************************************************)
(* PortSpec: listeners on different ports, a sender and other hosts        *)
(* addressing either port.                                                 *)
(***************************************************************************)
PortNext ==
    \/ SenderConstruct({1}, {ports[1], ports[2]})
    \/ SenderSend({1}, {MsgDone}, {DefaultBroadcastIp}, {TRUE})
    \/ Arrive({ports[1], ports[2]}, {Encode(MsgDone)})
    \/ Construct({1, 2})
    \/ Listen({1, 2})
    \/ Call({1, 2})
    \/ Return({1, 2})
    \/ Abort({1, 2})
    \/ Except({1, 2})
    \/ Close({1, 2})

PortSpec == Init /\ [][PortNext]_vars

(***************************************************************************)
(* The command-line entry point and the five demo modes.                   *)
(***************************************************************************)
ModeSender == <<115, 101, 110, 100, 101, 114>>
ModeReceiver == <<114, 101, 99, 101, 105, 118, 101, 114>>
ModeMulti == <<109, 117, 108, 116, 105>>
ModeMultiSender == <<109, 117, 108, 116, 105, 95, 115, 101, 110, 100, 101, 114>>
ModeTest == <<116, 101, 115, 116>>
Modes == {ModeSender, ModeReceiver, ModeMulti, ModeMultiSender, ModeTest}

\* the command lines tried: no argument, each mode, a mode in capitals
\* ("SENDER") and a word that is no mode ("bogus")
Argvs ==
    {<<>>, <<ModeSender>>, <<ModeReceiver>>, <<ModeMulti>>, <<ModeMultiSender>>,
     <<ModeTest>>, <<<<83, 69, 78, 68, 69, 82>>>>, <<<<98, 111, 103, 117, 115>>>>}

\* str.lower() on the letters A-Z
Lower(str) ==
    [i \in 1..Len(str) |-> IF str[i] \in 65..90 THEN str[i] + 32 ELSE str[i]]

\* str(n) of a positive integer, as code points
RECURSIVE Digits(_)
Digits(n) == IF n < 10 THEN <<48 + n>> ELSE Digits(n \div 10) \o <<48 + (n % 10)>>

\* the texts demo_broadcast_sender sends, in order
SenderDemoMessages == <<MsgHello, MsgSecond, MsgDone>>

\* the f-string demo_multi_port_sender sends to a port
PortMessage(port) ==
    <<36825, 26159, 21457, 36865, 21040, 31471, 21475, 32>> \o Digits(port)
      \o <<32, 30340, 24191, 25773, 28040, 24687>>

DemoInit ==
    /\ ClassInit
    /\ argv \in Argvs
    /\ mainpc = "start"
    /\ idx = 0
    /\ exitStatus = -1
    /\ stdout = {}

ClassUnchanged == UNCHANGED <<senderVars, recvVars, dgram>>
Goto(pc) == mainpc' = pc /\ UNCHANGED <<argv, idx, exitStatus, stdout>>

\* the first position of the demo a mode selects
demo_entry(mode) ==
    IF mode = ModeSender THEN "sender_open"
    ELSE IF mode = ModeReceiver THEN "receiver_open"
    ELSE IF mode = ModeMulti THEN "multi_open"
    ELSE IF mode = ModeMultiSender THEN "msender_open"
    ELSE IF mode = ModeTest THEN "test_open"
    ELSE "none"

\* if __name__ == "__main__": usage and exit(1) without an argument, the
\* demo of the mode, or the "unknown mode" line and the end of the script
Main ==
    /\ mainpc = "start"
    /\ ClassUnchanged
    /\ UNCHANGED <<argv, idx>>
    /\ IF Len(argv) < 1
       THEN /\ stdout' = {"usage"}
            /\ exitStatus' = 1
            /\ mainpc' = "exited"
       ELSE IF demo_entry(Lower(argv[1])) # "none"
       THEN /\ stdout' = {"banner"}
            /\ mainpc' = demo_entry(Lower(argv[1]))
            /\ UNCHANGED exitStatus
       ELSE /\ stdout' = {"unknown mode"}
            /\ exitStatus' = 0
            /\ mainpc' = "exited"

\* ---- demo_broadcast_sender
SenderDemoOpen ==
    /\ mainpc = "sender_open"
    /\ \E ok \in BOOLEAN :
          IF ok THEN UDPBroadcastSender_init(1, DefaultPort) /\ Goto("sender_try")
          ELSE ClassUnchanged /\ Goto("uncaught")

SenderDemoSend ==
    /\ mainpc = "sender_try"
    /\ \E netUp \in BOOLEAN :
          send_broadcast(1, SenderDemoMessages[idx + 1], DefaultBroadcastIp, netUp)
    /\ idx' = idx + 1
    /\ mainpc' = IF idx + 1 = Len(SenderDemoMessages) THEN "sender_finally"
                 ELSE "sender_try"
    /\ UNCHANGED <<argv, exitStatus, stdout>>

SenderDemoFinally ==
    /\ mainpc \in {"sender_finally", "sender_finally_exc"}
    /\ Sender_close(1)
    /\ Goto(IF mainpc = "sender_finally" THEN "return" ELSE "interrupted")

\* ---- demo_broadcast_receiver
ReceiverDemoOpen ==
    /\ mainpc = "receiver_open"
    /\ \E ok \in BOOLEAN :
          IF ok THEN UDPBroadcastReceiver_init(1, DefaultPort)
                       /\ Goto("receiver_call")
          ELSE ClassUnchanged /\ Goto("uncaught")

ReceiverDemoListen ==
    /\ mainpc = "receiver_call"
    /\ ListenStart(1)
    /\ Goto("receiver_listen")

ReceiverDemoFinally ==
    /\ mainpc = "receiver_finally"
    /\ Receiver_close(1)
    /\ Goto("return")

\* ---- demo_multiple_receivers
MultiDemoOpen ==
    /\ mainpc = "multi_open"
    /\ \E ok \in BOOLEAN :
          IF ok
          THEN /\ UDPBroadcastReceiver_init(idx + 1, ports[idx + 1])
               /\ Goto("multi_thread")
          ELSE /\ ClassUnchanged
               /\ idx' = idx + 1
               /\ mainpc' = IF idx + 1 = Len(ports) THEN "multi_wait"
                            ELSE "multi_open"
               /\ UNCHANGED <<argv, exitStatus, stdout>>

MultiDemoThread ==
    /\ mainpc = "multi_thread"
    /\ ListenStart(idx + 1)
    /\ idx' = idx + 1
    /\ mainpc' = IF idx + 1 = Len(ports) THEN "multi_wait" ELSE "multi_open"
    /\ UNCHANGED <<argv, exitStatus, stdout>>

\* finally: for receiver in receivers: receiver.close()
MultiDemoFinally ==
    /\ mainpc = "multi_finally"
    /\ IF \E r \in Receivers : rsock[r] = "open"
       THEN /\ Receiver_close(CHOOSE r \in Receivers :
                                 /\ rsock[r] = "open"
                                 /\ \A q \in Receivers : rsock[q] = "open" => r <= q)
            /\ Goto("multi_finally")
       ELSE ClassUnchanged /\ Goto("return")

\* ---- demo_multi_port_sender
MultiSenderDemoOpen ==
    /\ mainpc = "msender_open"
    /\ \E ok \in BOOLEAN :
          IF ok THEN UDPBroadcastSender_init(idx + 1, ports[idx + 1])
                       /\ Goto("msender_send")
          ELSE ClassUnchanged /\ Goto("uncaught")

MultiSenderDemoSend ==
    /\ mainpc = "msender_send"
    /\ \E netUp \in BOOLEAN :
          send_broadcast(idx + 1, PortMessage(ports[idx + 1]), DefaultBroadcastIp,
                         netUp)
    /\ Goto("msender_close")

MultiSenderDemoClose ==
    /\ mainpc = "msender_close"
    /\ Sender_close(idx + 1)
    /\ Goto("msender_sleep")

MultiSenderDemoSleep ==
    /\ mainpc = "msender_sleep"
    /\ ClassUnchanged
    /\ idx' = idx + 1
    /\ mainpc' = IF idx + 1 = Len(ports) THEN "return" ELSE "msender_open"
    /\ UNCHANGED <<argv, exitStatus, stdout>>

\* ---- demo_simple_test
TestDemoOpen ==
    /\ mainpc = "test_open"
    /\ \E ok \in BOOLEAN :
          IF ok THEN UDPBroadcastReceiver_init(1, DefaultPort) /\ Goto("test_thread")
          ELSE ClassUnchanged /\ Goto("uncaught")

TestDemoThread ==
    /\ mainpc = "test_thread"
    /\ ListenStart(1)
    /\ Goto("test_sleep1")

\* time.sleep(1), then sender = UDPBroadcastSender()
TestDemoSender ==
    /\ mainpc = "test_sleep1"
    /\ \E ok \in BOOLEAN :
          IF ok THEN UDPBroadcastSender_init(1, DefaultPort) /\ Goto("test_send")
          ELSE ClassUnchanged /\ Goto("uncaught")

TestDemoSend ==
    /\ mainpc = "test_send"
    /\ \E netUp \in BOOLEAN :
          send_broadcast(1, MsgSelfTest, DefaultBroadcastIp, netUp)
    /\ Goto("test_sleep2")

\* time.sleep(2), then sender.close()
TestDemoCloseSender ==
    /\ mainpc = "test_sleep2"
    /\ Sender_close(1)
    /\ Goto("test_close_receiver")

TestDemoCloseReceiver ==
    /\ mainpc = "test_close_receiver"
    /\ Receiver_close(1)
    /\ Goto("return")

\* ---- Ctrl+C while the main thread sleeps or blocks
KeyboardInterrupt ==
    /\ \/ mainpc = "sender_try" /\ idx >= 1
       \/ mainpc \in {"receiver_listen", "multi_wait", "msender_sleep",
                      "test_sleep1", "test_sleep2"}
    /\ mainpc' =
          IF mainpc = "sender_try" THEN "sender_finally_exc"
          ELSE IF mainpc = "receiver_listen" THEN "receiver_finally"
          ELSE IF mainpc = "multi_wait" THEN "multi_finally"
          ELSE "interrupted"
    \* in receiver mode the main thread is inside listen_for_broadcasts
    /\ rpc' = IF mainpc = "receiver_listen"
              THEN [rpc EXCEPT ![1] = loop_after("KeyboardInterrupt")]
              ELSE rpc
    /\ queue' = IF mainpc = "receiver_listen" /\ rsock[1] = "closed"
                THEN [queue EXCEPT ![1] = <<>>] ELSE queue
    /\ UNCHANGED <<senderVars, rsock, rport, rbound, log, retries, dgram,
                   argv, idx, exitStatus, stdout>>

\* the script ends: normally, or by an exception nothing caught; the daemon
\* threads end with the process
ProcessExit ==
    /\ mainpc \in {"return", "uncaught", "interrupted"}
    /\ mainpc' = "exited"
    /\ exitStatus' = IF mainpc = "return" THEN 0
                     ELSE IF mainpc = "uncaught" THEN 1 ELSE 130
    /\ rpc' = [r \in Receivers |->
                 IF rpc[r] \in {"top", "inrecv", "failed"} THEN "killed"
                 ELSE rpc[r]]
    /\ UNCHANGED <<senderVars, rsock, rport, rbound, queue, log, retries, dgram,
                   argv, idx, stdout>>

\* the listening threads and the other hosts of the LAN
DemoCall == (\E r \in Receivers : CallRecvfrom(r)) /\ UNCHANGED progVars
DemoReturn == (\E r \in Receivers : RecvReturn(r)) /\ UNCHANGED progVars
DemoAbort == (\E r \in Receivers : RecvAbort(r)) /\ UNCHANGED progVars
DemoExcept == (\E r \in Receivers : ExceptClause(r)) /\ UNCHANGED progVars
DemoArrive ==
    /\ \E p \in Ports, raw \in {Encode(MsgDone), RawInvalid} :
          BoundTo(p) # {} /\ ForeignSend(p, raw)
    /\ UNCHANGED progVars

DemoNext ==
    \/ Main
    \/ SenderDemoOpen
    \/ SenderDemoSend
    \/ SenderDemoFinally
    \/ ReceiverDemoOpen
    \/ ReceiverDemoListen
    \/ ReceiverDemoFinally
    \/ MultiDemoOpen
    \/ MultiDemoThread
    \/ MultiDemoFinally
    \/ MultiSenderDemoOpen
    \/ MultiSenderDemoSend
    \/ MultiSenderDemoClose
    \/ MultiSenderDemoSleep
    \/ TestDemoOpen
    \/ TestDemoThread
    \/ TestDemoSender
    \/ TestDemoSend
    \/ TestDemoCloseSender
    \/ TestDemoCloseReceiver
    \/ KeyboardInterrupt
    \/ ProcessExit
    \/ DemoCall
    \/ DemoReturn
    \/ DemoAbort
    \/ DemoExcept
    \/ DemoArrive

DemoSpec == DemoInit /\ [][DemoNext]_vars

(***************************************************************************)
(* Properties.                                                             *)
(***************************************************************************)
Running(r) == rpc[r] \in {"top", "inrecv", "failed"}
Queued(r, id) == \E k \in DOMAIN queue[r] : queue[r][k] = id
Sent(id) == id \in DOMAIN dgram
\* the loop of r printed a record for datagram id with this text
Recorded(r, id, text) ==
    \E i \in DOMAIN log[r] :
        /\ log[r][i].kind = "record"
        /\ log[r][i].id = id
        /\ log[r][i].message = text
\* the bytes of datagram id that recvfrom hands to the loop are UTF-8
Decodable(id) == decode_utf8(recvfrom_data(dgram[id].data)).ok

\* C1: once close() was called on a receiver whose loop is blocked in
\* recvfrom, listen_for_broadcasts eventually returns.
C1_CloseEndsLoop ==
    \A r \in Receivers :
        (rsock[r] = "closed" /\ rpc[r] = "inrecv") ~> (rpc[r] = "returned")

\* C2: send_broadcast lets no exception escape; it returns True exactly when
\* sendto succeeded and False when message.encode or sendto failed.
C2_SendNeverRaises ==
    /\ lastSend.result # "raised"
    /\ lastSend.result = "True" <=> lastSend.outcome = "ok"
    /\ lastSend.result = "False"
         <=> lastSend.outcome \in {"OSError", "UnicodeEncodeError"}

\* a send succeeded on a sender whose previous send had failed
C2_Witness ==
    /\ lastSend.result = "True"
    /\ lastSend.afterFailure
    /\ Len(dgram) > 0

\* C3: every datagram the loop read has exactly one record.
C3_OneRecordPerDatagram ==
    \A r \in Receivers : \A i \in DOMAIN log[r] :
        Cardinality({j \in DOMAIN log[r] :
                        /\ log[r][j].kind = "record"
                        /\ log[r][j].id = log[r][i].id}) = 1

\* C4 as stated: every text of at most UdpMax bytes that a sender sent and
\* a listener read has a record whose payload equals the text.
C4_EveryMessageRecorded ==
    \A r \in Receivers : \A i \in DOMAIN log[r] :
        LET d == dgram[log[r][i].id]
        IN  (d.src # 0 /\ Len(d.data) <= UdpMax)
              => Recorded(r, log[r][i].id, d.text)

\* C4 amended: a text of at most BufSize bytes, sent by a sender and waiting
\* in the socket of a running listener, is eventually recorded with a
\* payload equal to the text, unless the listener is closed first.
C4_FittingMessageRecorded ==
    \A r \in Receivers : \A id \in 1..MaxDatagrams :
        (/\ Sent(id)
         /\ Queued(r, id)
         /\ Running(r)
         /\ dgram[id].src # 0
         /\ Len(dgram[id].data) <= BufSize)
          ~> (rsock[r] = "closed"
                \/ (Sent(id) /\ Recorded(r, id, dgram[id].text)))

\* a text of exactly BufSize bytes went from the sender to the listener on
\* the sender's port and was recorded whole
C4_Witness ==
    \E i \in DOMAIN log[1] :
        LET d == dgram[log[1][i].id]
        IN  /\ d.src = 1
            /\ sport[1] = rport[1]
            /\ Len(d.data) = BufSize
            /\ log[1][i].kind = "record"
            /\ log[1][i].message = d.text

\* C5: a datagram longer than the receive buffer has a record whose payload
\* is exactly its first BufSize bytes.
C5_TruncatedNotDropped ==
    \A r \in Receivers : \A i \in DOMAIN log[r] :
        LET d == dgram[log[r][i].id].data
        IN  Len(d) > BufSize
              => /\ log[r][i].kind = "record"
                 /\ Encode(log[r][i].message) = SubSeq(d, 1, BufSize)

\* C6: once a receiver is closed its loop prints no further record and
\* takes no further step except to return.
C6_ClosedIsTerminal ==
    [][\A r \in Receivers :
          rsock[r] = "closed"
            => /\ log'[r] = log[r]
               /\ rpc'[r] # rpc[r] => rpc'[r] = "returned"]_vars

\* C7: every record of a listener comes from a datagram addressed to the
\* listener's port.
C7_PortIsolation ==
    \A r \in Receivers : \A i \in DOMAIN log[r] :
        log[r][i].kind = "record" => dgram[log[r][i].id].port = rport[r]

\* two listeners on different ports each recorded a datagram, one of them
\* sent by the sender
C7_Witness ==
    /\ rport[1] # rport[2]
    /\ \E i \in DOMAIN log[1] : log[1][i].kind = "record"
    /\ \E i \in DOMAIN log[2] : log[2][i].kind = "record"
    /\ \E id \in DOMAIN dgram : dgram[id].src = 1

\* the loop is still inside listen_for_broadcasts, and what it printed for
\* each datagram is an error line when the bytes are no UTF-8 and a record
\* of the decoded bytes when they are
C10_Caught ==
    \A r \in Receivers :
        /\ rpc[r] \in {"idle", "top", "inrecv", "failed"}
        /\ \A i \in DOMAIN log[r] :
              IF Decodable(log[r][i].id)
              THEN /\ log[r][i].kind = "record"
                   /\ log[r][i].message
                        = decode_utf8(recvfrom_data(dgram[log[r][i].id].data)).text
              ELSE log[r][i].kind = "error"

\* C10: an error in one iteration (bytes that are no UTF-8) is caught and
\* logged without a record and does not end the loop, and a valid datagram
\* waiting after it is eventually recorded, unless the listener is closed.
C10_LoopSurvivesErrors ==
    /\ []C10_Caught
    /\ \A r \in Receivers : \A id \in 1..MaxDatagrams :
          (/\ Sent(id)
           /\ Queued(r, id)
           /\ Decodable(id)
           /\ \E i \in DOMAIN log[r] : log[r][i].kind = "error")
            ~> (rsock[r] = "closed"
                  \/ \E i \in DOMAIN log[r] :
                        log[r][i].kind = "record" /\ log[r][i].id = id)

\* an undecodable datagram was logged as an error and the valid datagram
\* that arrived after it was recorded
C10_Witness ==
    /\ Len(log[1]) = 2
    /\ log[1][1].kind = "error"
    /\ dgram[log[1][1].id].data = RawInvalid
    /\ log[1][2].kind = "record"
    /\ log[1][2].message = MsgDone

\* C8: when a demo mode has ended, normally or by an exception, no sender
\* or receiver it created is left unclosed.
C8_AllSocketsClosed ==
    mainpc = "exited"
      => /\ \A s \in Senders : ssock[s] # "open"
         /\ \A r \in Receivers : rsock[r] # "open"

\* C9: without a mode argument, and with one that is no mode, the script
\* prints the usage, exits with status 1 and runs no demo.
C9_UsageAndStatusOne ==
    (/\ mainpc = "exited"
     /\ \/ Len(argv) = 0
        \/ Len(argv) > 0 /\ Lower(argv[1]) \notin Modes)
      => /\ exitStatus = 1
         /\ "usage" \in stdout
         /\ "banner" \notin stdout

=============================================================================
